---- MODULE Spec2Model ----
(***************************************************************************)
(* A model of the proxy harvester of src/main.go: the scrape / validate /  *)
(* collect pipeline of main, the ProxyPool, validateProxy and the string   *)
(* functions they rest on.                                                 *)
(*                                                                         *)
(* A Go string is modelled as a sequence of one-character strings, so that *)
(* TrimPrefix, Split, Atoi and the regular expressions of the source are   *)
(* computed character by character, as the code computes them.             *)
(***************************************************************************)
EXTENDS Integers, Sequences, FiniteSets, Bags, TLC

(***************************************************************************)
(* Bounds of the model.  The source runs 13 producers (proxySites), 20     *)
(* validator workers and two channels of capacity 1000; the model keeps    *)
(* the structure and scales the sizes down.                                *)
(***************************************************************************)
NumProducers == 2

NumWorkers == 2

ChanCap == 1

MaxRows == 1

MaxScripts == 1

Producers == 1..NumProducers

Workers == 1..NumWorkers

\* the goroutines that use a ProxyPool, and the calls they make in all
NumClients == 2

MaxCalls == 4

Clients == 1..NumClients

(***************************************************************************)
(* Strings                                                                 *)
(***************************************************************************)
Digits == {"0", "1", "2", "3", "4", "5", "6", "7", "8", "9"}

DigitVal(c) ==
    CASE c = "0" -> 0 [] c = "1" -> 1 [] c = "2" -> 2 [] c = "3" -> 3
      [] c = "4" -> 4 [] c = "5" -> 5 [] c = "6" -> 6 [] c = "7" -> 7
      [] c = "8" -> 8 [] c = "9" -> 9

\* s[from..] (1-based), the empty string when from is past the end
Drop(s, n) == SubSeq(s, n + 1, Len(s))

Take(s, n) == SubSeq(s, 1, n)

\* strings.HasPrefix
HasPrefix(s, p) == Len(s) >= Len(p) /\ Take(s, Len(p)) = p

\* strings.TrimPrefix
TrimPrefix(s, p) == IF HasPrefix(s, p) THEN Drop(s, Len(p)) ELSE s

\* the first index (1-based) at which sub occurs in s, 0 when it does not
IndexOf(s, sub) ==
    LET hits == {i \in 1..(Len(s) - Len(sub) + 1) : SubSeq(s, i, i + Len(sub) - 1) = sub}
    IN  IF Len(sub) = 0 THEN 1
        ELSE IF hits = {} THEN 0
        ELSE CHOOSE i \in hits : \A j \in hits : i <= j

\* strings.Contains
Contains(s, sub) == IndexOf(s, sub) # 0

LowerOf(c) ==
    CASE c = "A" -> "a" [] c = "B" -> "b" [] c = "C" -> "c" [] c = "D" -> "d"
      [] c = "E" -> "e" [] c = "F" -> "f" [] c = "G" -> "g" [] c = "H" -> "h"
      [] c = "I" -> "i" [] c = "J" -> "j" [] c = "K" -> "k" [] c = "L" -> "l"
      [] c = "M" -> "m" [] c = "N" -> "n" [] c = "O" -> "o" [] c = "P" -> "p"
      [] c = "Q" -> "q" [] c = "R" -> "r" [] c = "S" -> "s" [] c = "T" -> "t"
      [] c = "U" -> "u" [] c = "V" -> "v" [] c = "W" -> "w" [] c = "X" -> "x"
      [] c = "Y" -> "y" [] c = "Z" -> "z" [] OTHER -> c

\* strings.ToLower
ToLower(s) == [i \in 1..Len(s) |-> LowerOf(s[i])]

\* strings.Split(s, sep) for a one-character separator: always at least one part
RECURSIVE Split(_, _)
Split(s, sep) ==
    LET i == IndexOf(s, <<sep>>)
    IN  IF i = 0 THEN <<s>>
        ELSE <<Take(s, i - 1)>> \o Split(Drop(s, i), sep)

\* strings.ReplaceAll(s, old, ""): every non-overlapping occurrence, left to right
RECURSIVE RemoveAll(_, _)
RemoveAll(s, old) ==
    LET i == IndexOf(s, old)
    IN  IF i = 0 THEN s
        ELSE Take(s, i - 1) \o RemoveAll(Drop(s, i - 1 + Len(old)), old)

\* strings.Join(parts, "")
RECURSIVE Concat(_)
Concat(parts) ==
    IF parts = <<>> THEN <<>> ELSE Head(parts) \o Concat(Tail(parts))

(***************************************************************************)
(* strconv.Atoi: an optional sign, then one or more decimal digits.  Only  *)
(* comparisons with 0, 1, 255 and 65535 are made on the result, and a      *)
(* value beyond the int range is an error (rejected like a large value),   *)
(* so the magnitude saturates at AtoiCap.                                  *)
(***************************************************************************)
AtoiCap == 70000

RECURSIVE DigitsValue(_, _)
DigitsValue(s, acc) ==
    IF s = <<>> THEN acc
    ELSE LET v == acc * 10 + DigitVal(Head(s))
         IN  DigitsValue(Tail(s), IF v > AtoiCap THEN AtoiCap ELSE v)

Atoi(s) ==
    LET signed == s # <<>> /\ Head(s) \in {"+", "-"}
        body   == IF signed THEN Tail(s) ELSE s
        ok     == body # <<>> /\ \A i \in 1..Len(body) : body[i] \in Digits
        mag    == IF ok THEN DigitsValue(body, 0) ELSE 0
    IN  [err |-> ~ok,
         num |-> IF signed /\ Head(s) = "-" THEN 0 - mag ELSE mag]

(***************************************************************************)
(* String constants of the source                                          *)
(***************************************************************************)
HttpPrefix == <<"h", "t", "t", "p", ":", "/", "/">>

Socks5Prefix == <<"s", "o", "c", "k", "s", "5", ":", "/", "/">>

Socks5Word == <<"s", "o", "c", "k", "s", "5">>

DocumentWrite == <<"d", "o", "c", "u", "m", "e", "n", "t", ".", "w", "r", "i", "t", "e">>

AtobWord == <<"a", "t", "o", "b">>

AtobOpen == <<"a", "t", "o", "b", "(", "\"">>

RepeatWord == <<"r", "e", "p", "e", "a", "t">>

SubstringWord == <<"s", "u", "b", "s", "t", "r", "i", "n", "g">>

ConcatWord == <<"c", "o", "n", "c", "a", "t">>

(***************************************************************************)
(* isValidIP (src/main.go:136): four dot-separated parts, each accepted by *)
(* Atoi and in 0..255.                                                     *)
(***************************************************************************)
isValidIP(ip) ==
    LET parts == Split(ip, ".")
    IN  /\ Len(parts) = 4
        /\ \A i \in 1..Len(parts) :
              LET a == Atoi(parts[i])
              IN  ~a.err /\ a.num >= 0 /\ a.num <= 255

\* validateProxy, lines 151-164: the structural check, no network involved
HostPort(proxy) == TrimPrefix(TrimPrefix(proxy, HttpPrefix), Socks5Prefix)

StructuralOK(proxy) ==
    LET parts == Split(HostPort(proxy), ":")
    IN  /\ Len(parts) = 2
        /\ isValidIP(parts[1])
        /\ LET p == Atoi(parts[2])
           IN  ~p.err /\ p.num >= 1 /\ p.num <= 65535

(***************************************************************************)
(* url.Parse(proxy) (src/main.go:166), for the strings that reach it: a    *)
(* string with no scheme whose first path segment holds a colon is an      *)
(* error; with a scheme, the authority runs to the next "/" and whatever   *)
(* follows its last colon must be decimal digits only (possibly none).     *)
(***************************************************************************)
LastIndexOfChar(s, c) ==
    LET hits == {i \in 1..Len(s) : s[i] = c}
    IN  IF hits = {} THEN 0 ELSE CHOOSE i \in hits : \A j \in hits : j <= i

URLParseOK(proxy) ==
    LET scheme == IF HasPrefix(proxy, HttpPrefix) THEN HttpPrefix
                  ELSE IF HasPrefix(proxy, Socks5Prefix) THEN Socks5Prefix
                  ELSE <<>>
        rest   == Drop(proxy, Len(scheme))
        slash  == IndexOf(rest, <<"/">>)
        auth   == IF slash = 0 THEN rest ELSE Take(rest, slash - 1)
        colon  == LastIndexOfChar(auth, ":")
    IN  IF scheme = <<>>
        THEN ~Contains(auth, <<":">>)
        ELSE colon = 0 \/ \A i \in (colon + 1)..Len(auth) : auth[i] \in Digits

(***************************************************************************)
(* base64.StdEncoding.DecodeString, whose error the source discards: the   *)
(* bytes decoded before the first corrupt quantum are what is returned.    *)
(***************************************************************************)
B64Alphabet ==
    <<"A", "B", "C", "D", "E", "F", "G", "H", "I", "J", "K", "L", "M",
      "N", "O", "P", "Q", "R", "S", "T", "U", "V", "W", "X", "Y", "Z",
      "a", "b", "c", "d", "e", "f", "g", "h", "i", "j", "k", "l", "m",
      "n", "o", "p", "q", "r", "s", "t", "u", "v", "w", "x", "y", "z",
      "0", "1", "2", "3", "4", "5", "6", "7", "8", "9", "+", "/">>

Ascii ==
    <<" ", "!", "\"", "#", "$", "%", "&", "'", "(", ")", "*", "+", ",",
      "-", ".", "/", "0", "1", "2", "3", "4", "5", "6", "7", "8", "9",
      ":", ";", "<", "=", ">", "?", "@", "A", "B", "C", "D", "E", "F",
      "G", "H", "I", "J", "K", "L", "M", "N", "O", "P", "Q", "R", "S",
      "T", "U", "V", "W", "X", "Y", "Z", "[", "\\", "]", "^", "_", "BACKTICK",
      "a", "b", "c", "d", "e", "f", "g", "h", "i", "j", "k", "l", "m",
      "n", "o", "p", "q", "r", "s", "t", "u", "v", "w", "x", "y", "z",
      "{", "|", "}", "~">>

B64Val(c) ==
    IF \E i \in 1..64 : B64Alphabet[i] = c
    THEN (CHOOSE i \in 1..64 : B64Alphabet[i] = c) - 1
    ELSE 0 - 1

\* string(byte): printable ASCII is kept (the backquote under a name), any
\* other byte is one opaque character
CharOfByte(b) == IF b >= 32 /\ b <= 126 THEN Ascii[b - 31] ELSE "NONPRINT"

\* the bytes of one quantum of n (2..4) sextets: n - 1 bytes
QuantumBytes(v, n) ==
    LET val == v[1] * 262144 + v[2] * 4096
               + (IF n >= 3 THEN v[3] * 64 ELSE 0) + (IF n >= 4 THEN v[4] ELSE 0)
        b0  == val \div 65536
        b1  == (val \div 256) % 256
        b2  == val % 256
    IN  SubSeq(<<CharOfByte(b0), CharOfByte(b1), CharOfByte(b2)>>, 1, n - 1)

RECURSIVE Base64Decode(_)
Base64Decode(s) ==
    LET n    == IF Len(s) < 4 THEN Len(s) ELSE 4
        q    == Take(s, n)
        ok   == {j \in 0..n : \A i \in 1..j : B64Val(q[i]) >= 0}
        j    == CHOOSE k \in ok : \A m \in ok : m <= k
        vals == [i \in 1..j |-> B64Val(q[i])]
    IN  IF s = <<>> THEN <<>>
        ELSE IF j = 4 THEN QuantumBytes(vals, 4) \o Base64Decode(Drop(s, 4))
        ELSE IF j = Len(s) THEN <<>>
        ELSE IF s[j + 1] # "=" THEN <<>>
        ELSE IF j <= 1 THEN <<>>
        ELSE IF j = 2 THEN (IF Len(s) >= 4 /\ s[4] = "=" THEN QuantumBytes(vals, 2) ELSE <<>>)
        ELSE QuantumBytes(vals, 3)

(***************************************************************************)
(* deobfuscateIP (src/main.go:120)                                         *)
(***************************************************************************)
\* regexp atob\("([^"]+)"\): the payload of the leftmost match, <<>> if none
AtobMatchAt(js, i) ==
    LET from  == Drop(js, i - 1 + Len(AtobOpen))
        quote == IndexOf(from, <<"\"">>)
    IN  /\ HasPrefix(Drop(js, i - 1), AtobOpen)
        /\ quote >= 2
        /\ Len(from) > quote
        /\ from[quote + 1] = ")"

AtobPayloadAt(js, i) ==
    LET from == Drop(js, i - 1 + Len(AtobOpen))
    IN  Take(from, IndexOf(from, <<"\"">>) - 1)

AtobMatches(js) == {i \in 1..Len(js) : AtobMatchAt(js, i)}

\* the class of a regexp that also keeps the colon, [\d.:]+
IsDigitDotOrColon(c) == c \in Digits \/ c = "." \/ c = ":"

\* regexp [\d.]+ with FindAllString(js, -1): the maximal runs, left to right
IsDigitOrDot(c) == c \in Digits \/ c = "."

RECURSIVE RunLength(_)
RunLength(s) ==
    IF s = <<>> \/ ~IsDigitOrDot(Head(s)) THEN 0 ELSE 1 + RunLength(Tail(s))

RECURSIVE FindAllRuns(_)
FindAllRuns(s) ==
    IF s = <<>> THEN <<>>
    ELSE IF ~IsDigitOrDot(Head(s)) THEN FindAllRuns(Tail(s))
    ELSE LET n == RunLength(s)
         IN  <<Take(s, n)>> \o FindAllRuns(Drop(s, n))

StripNoise(js) ==
    RemoveAll(RemoveAll(RemoveAll(RemoveAll(js, DocumentWrite), RepeatWord),
                        SubstringWord), ConcatWord)

deobfuscateIP(js) ==
    IF Contains(js, AtobWord) /\ AtobMatches(js) # {}
    THEN Base64Decode(AtobPayloadAt(js,
             CHOOSE i \in AtobMatches(js) : \A k \in AtobMatches(js) : i <= k))
    ELSE Concat(FindAllRuns(StripNoise(js)))

(***************************************************************************)
(* The inputs of a run: what a fetch can return, the table rows and inline *)
(* scripts a fetched page can hold, and what the proxied GET can return.   *)
(***************************************************************************)
FetchOutcomes == {"requestError", "fetchError", "parseError", "ok"}

\* a table row as read at lines 94-96: the texts of cells 0, 1 and 4
RowGood == [ip |-> <<"1", "0", ".", "0", ".", "0", ".", "1">>, port |-> <<"3", "1", "2", "8">>, protocol |-> <<"H", "T", "T", "P">>]

RowNoIP == [ip |-> <<>>, port |-> <<"3", "1", "2", "8">>, protocol |-> <<>>]

RowNoPort == [ip |-> <<"1", "0", ".", "0", ".", "0", ".", "1">>, port |-> <<>>, protocol |-> <<"H", "T", "T", "P">>]

RowBlank == [ip |-> <<>>, port |-> <<>>, protocol |-> <<>>]

RowSignedPort == [ip |-> <<"1", ".", "2", ".", "3", ".", "4">>, port |-> <<"+", "8", "0">>, protocol |-> <<"S", "o", "c", "k", "s", "5">>]

RowBadOctet == [ip |-> <<"3", "0", "0", ".", "1", ".", "1", ".", "1">>, port |-> <<"3", "1", "2", "8">>, protocol |-> <<>>]

Rows == {RowGood, RowNoIP, RowNoPort, RowSignedPort}

\* var x=1
ScriptPlain == <<"v", "a", "r", " ", "x", "=", "1">>

\* document.write(atob("MS4yLjMuNDo4MA==")), the payload being base64 of 1.2.3.4:80
ScriptAtob == <<"d", "o", "c", "u", "m", "e", "n", "t", ".", "w", "r", "i", "t", "e", "(", "a", "t", "o", "b", "(", "\"", "M", "S", "4", "y", "L", "j", "M", "u", "N", "D", "o", "4", "M", "A", "=", "=", "\"", ")", ")">>

\* document.write("1"+"2")
ScriptConcat == <<"d", "o", "c", "u", "m", "e", "n", "t", ".", "w", "r", "i", "t", "e", "(", "\"", "1", "\"", "+", "\"", "2", "\"", ")">>

\* document.write("")
ScriptEmpty == <<"d", "o", "c", "u", "m", "e", "n", "t", ".", "w", "r", "i", "t", "e", "(", "\"", "\"", ")">>

Scripts == {ScriptPlain, ScriptConcat}

\* client.Get: an error (timeout, refused), or a response with a status
NetResponses ==
    {[kind |-> "error", status |-> 0],
     [kind |-> "status", status |-> 200],
     [kind |-> "status", status |-> 404]}

NoResponse == [kind |-> "none", status |-> 0]

\* the value of a variable that holds no candidate (no candidate is empty:
\* every one starts with a scheme prefix)
NoItem == <<>>

(***************************************************************************)
(* The extractor, lines 93-117                                             *)
(***************************************************************************)
\* lines 98-104: the candidate of a row (called only when ip and port are non-empty)
RowCandidate(row) ==
    LET proxy == row.ip \o <<":">> \o row.port
    IN  IF Contains(ToLower(row.protocol), Socks5Word)
        THEN Socks5Prefix \o proxy
        ELSE HttpPrefix \o proxy

\* the row test without the test of the cells
RowEmitsAlways(row) == TRUE

RowEmits(row) == row.ip # <<>> /\ row.port # <<>>

\* lines 111-115
ScriptEmits(js) == Contains(js, DocumentWrite) /\ deobfuscateIP(js) # <<>>

ScriptCandidate(js) == HttpPrefix \o deobfuscateIP(js)

(***************************************************************************)
(* The functions above, tabulated over the inputs of the model.  The       *)
(* actions look the results up instead of recomputing them in every state. *)
(***************************************************************************)
\* per row: whether line 98 lets it through, and the candidate it then sends
RowTable ==
    [row \in Rows |-> [emits |-> RowEmits(row), candidate |-> RowCandidate(row)]]

\* per script: whether lines 111-113 let it through, and the candidate sent
ScriptTable ==
    [js \in Scripts |-> [emits |-> ScriptEmits(js), candidate |-> ScriptCandidate(js)]]

\* every string the producers of the model can send
Candidates ==
    {RowTable[row].candidate : row \in {r \in Rows : RowTable[r].emits}}
        \cup {ScriptTable[js].candidate : js \in {j \in Scripts : ScriptTable[j].emits}}

\* per candidate: the checks of validateProxy that precede the network call
CheckTable ==
    [c \in Candidates |-> [structural |-> StructuralOK(c), urlParse |-> URLParseOK(c)]]

(***************************************************************************)
(* ProxyPool (src/main.go:36)                                              *)
(***************************************************************************)
\* Add as it would be with the duplicates filtered out
AddUnique(p, proxy) ==
    IF \E i \in DOMAIN p.proxies : p.proxies[i] = proxy
    THEN p
    ELSE [p EXCEPT !.proxies = Append(@, proxy)]

\* Add as an append that also rewinds the cursor
AddResetCursor(p, proxy) == [p EXCEPT !.proxies = Append(@, proxy), !.current = 0]

\* ProxyPool.Add
Add(p, proxy) == [p EXCEPT !.proxies = Append(@, proxy)]

(***************************************************************************)
(* The state of a run of main (src/main.go:203)                            *)
(***************************************************************************)
VARIABLES
    mainPc,        \* where main is
    wg,            \* the producers' WaitGroup counter
    validatorWg,   \* the validator workers' WaitGroup counter
    prodPc,        \* per producer: where scrapeProxies is
    prodIdx,       \* per producer: rows (then scripts) visited by the current Each
    prodSent,      \* per producer: number of sends it made on proxyChan
    prodPending,   \* per producer: the candidate of the send it is at
    workPc,        \* per validator worker: where it is
    workCur,       \* per validator worker: the candidate it holds
    closer1Pc,     \* the goroutine of lines 232-235
    closer2Pc,     \* the goroutine of lines 237-240
    proxyChan,     \* buffered channel: its queue
    proxyClosed,
    validChan,
    validClosed,
    fault,         \* the runtime panic the run died of, "none" if none
    pool,          \* the ProxyPool
    validProxies,  \* main's ordered output list
    saveCalls,     \* number of calls of saveProxies
    saveErr,       \* what saveProxies returned: "none" (not called), "nil", "error"
    file,          \* the output file: where it is and its lines
    summary,       \* the total printed by line 255, -1 until printed
    exitStatus,    \* "running", then how the process ended
    sentBag,       \* history: the sends made on proxyChan, per candidate
    recvBag,       \* history: the receives from proxyChan by a worker
    fwdBag,        \* history: the sends made on validChan
    dropBag,       \* history: the candidates a worker dropped
    calls,         \* history: the completed calls of validateProxy
    mu,            \* pool.mu: how many hold the read lock, whether the write lock is held
    clientPc,      \* per client of the pool: where it is in Add or GetNext
    clientArg,     \* per client: the proxy its Add was called with
    clientReg,     \* per client: the cursor value its GetNext has in a register
    clientRet,     \* per client: what its GetNext is about to return
    clientEntry,   \* history, per client: the cursor when its GetNext took the lock
    poolLog,       \* history: the completed calls of Add and GetNext, in order
    callsLeft,     \* the calls of Add and GetNext still to be started
    tryPc,         \* a single input taken through the code: where it is
    tryInput,      \* the input: a table row, a script, or a string received by a worker
    tryProxy,      \* the candidate the input gave
    tryResult      \* what validateProxy and the worker did with the candidate

mainVars == <<mainPc, pool, validProxies, saveCalls, saveErr, file, summary, exitStatus>>

prodVars == <<prodPc, prodIdx, prodSent, prodPending, sentBag>>

workVars == <<workPc, workCur, recvBag, fwdBag, dropBag, calls>>

chanVars == <<proxyChan, proxyClosed, validChan, validClosed, fault>>

syncVars == <<wg, validatorWg, closer1Pc, closer2Pc>>

clientVars == <<mu, clientPc, clientArg, clientReg, clientRet, clientEntry, poolLog, callsLeft>>

tryVars == <<tryPc, tryInput, tryProxy, tryResult>>

vars == <<mainVars, prodVars, workVars, chanVars, syncVars, clientVars, tryVars>>

NoFile == [path |-> "none", lines |-> <<>>]

\* no input under trial, and no result yet
NoInput == [kind |-> "none", row |-> RowBlank, text |-> <<>>]

NoResult == [structural |-> FALSE, net |-> FALSE, ret |-> FALSE, forwarded |-> FALSE]

\* what GetNext returns: line 52, or line 55 with the position it read
NotFound == [proxy |-> <<>>, found |-> FALSE, pos |-> 0 - 1]

Fresh ==
    /\ mainPc = "spawnProducers"
    /\ wg = 0
    /\ validatorWg = 0
    /\ prodPc = [p \in Producers |-> "unborn"]
    /\ prodIdx = [p \in Producers |-> 0]
    /\ prodSent = [p \in Producers |-> 0]
    /\ prodPending = [p \in Producers |-> NoItem]
    /\ workPc = [w \in Workers |-> "unborn"]
    /\ workCur = [w \in Workers |-> NoItem]
    /\ closer1Pc = "unborn"
    /\ closer2Pc = "unborn"
    /\ proxyChan = <<>>
    /\ proxyClosed = FALSE
    /\ validChan = <<>>
    /\ validClosed = FALSE
    /\ fault = "none"
    /\ pool = [proxies |-> <<>>, current |-> 0]
    /\ validProxies = <<>>
    /\ saveCalls = 0
    /\ saveErr = "none"
    /\ file = NoFile
    /\ summary = 0 - 1
    /\ exitStatus = "running"
    /\ sentBag = EmptyBag
    /\ recvBag = EmptyBag
    /\ fwdBag = EmptyBag
    /\ dropBag = EmptyBag
    /\ calls = EmptyBag
    /\ mu = [readers |-> 0, writer |-> FALSE]
    /\ clientPc = [c \in Clients |-> "idle"]
    /\ clientArg = [c \in Clients |-> NoItem]
    /\ clientReg = [c \in Clients |-> 0]
    /\ clientRet = [c \in Clients |-> NotFound]
    /\ clientEntry = [c \in Clients |-> 0]
    /\ poolLog = <<>>
    /\ callsLeft = MaxCalls

\* the state in which main starts
Init ==
    /\ Fresh
    /\ tryPc = "idle"
    /\ tryInput = NoInput
    /\ tryProxy = NoItem
    /\ tryResult = NoResult

\* a panic ends the process: nothing runs after it
Running == fault = "none" /\ exitStatus = "running"

(***************************************************************************)
(* main, lines 209-240: start the goroutines                               *)
(***************************************************************************)
\* MainSpawnProducer without the wg.Add(1) before the go statement
MainSpawnProducerNoAdd ==
    /\ Running
    /\ mainPc = "spawnProducers"
    /\ LET unborn == {p \in Producers : prodPc[p] = "unborn"}
           p      == CHOOSE q \in unborn : \A r \in unborn : q <= r
       IN  /\ wg' = wg
           /\ prodPc' = [prodPc EXCEPT ![p] = "fetch"]
           /\ mainPc' = IF unborn = {p} THEN "spawnWorkers" ELSE mainPc
    /\ UNCHANGED <<pool, validProxies, saveCalls, saveErr, file, summary, exitStatus>>
    /\ UNCHANGED <<prodIdx, prodSent, prodPending, sentBag>>
    /\ UNCHANGED <<workVars, chanVars, validatorWg, closer1Pc, closer2Pc>>
    /\ UNCHANGED <<clientVars, tryVars>>

\* lines 210-213: wg.Add(1); go scrapeProxies(site, &wg, proxyChan)
MainSpawnProducer ==
    /\ Running
    /\ mainPc = "spawnProducers"
    /\ LET unborn == {p \in Producers : prodPc[p] = "unborn"}
           p      == CHOOSE q \in unborn : \A r \in unborn : q <= r
       IN  /\ wg' = wg + 1
           /\ prodPc' = [prodPc EXCEPT ![p] = "fetch"]
           /\ mainPc' = IF unborn = {p} THEN "spawnWorkers" ELSE mainPc
    /\ UNCHANGED <<pool, validProxies, saveCalls, saveErr, file, summary, exitStatus>>
    /\ UNCHANGED <<prodIdx, prodSent, prodPending, sentBag>>
    /\ UNCHANGED <<workVars, chanVars, validatorWg, closer1Pc, closer2Pc>>
    /\ UNCHANGED <<clientVars, tryVars>>

\* lines 219-229: validatorWg.Add(1); go func() { ... }()
MainSpawnWorker ==
    /\ Running
    /\ mainPc = "spawnWorkers"
    /\ LET unborn == {w \in Workers : workPc[w] = "unborn"}
           w      == CHOOSE q \in unborn : \A r \in unborn : q <= r
       IN  /\ validatorWg' = validatorWg + 1
           /\ workPc' = [workPc EXCEPT ![w] = "recv"]
           /\ mainPc' = IF unborn = {w} THEN "spawnCloser1" ELSE mainPc
    /\ UNCHANGED <<pool, validProxies, saveCalls, saveErr, file, summary, exitStatus>>
    /\ UNCHANGED <<workCur, recvBag, fwdBag, dropBag, calls>>
    /\ UNCHANGED <<prodVars, chanVars, wg, closer1Pc, closer2Pc>>
    /\ UNCHANGED <<clientVars, tryVars>>

\* lines 232-235: go func() { wg.Wait(); close(proxyChan) }()
MainSpawnCloser1 ==
    /\ Running
    /\ mainPc = "spawnCloser1"
    /\ closer1Pc' = "wait"
    /\ mainPc' = "spawnCloser2"
    /\ UNCHANGED <<pool, validProxies, saveCalls, saveErr, file, summary, exitStatus>>
    /\ UNCHANGED <<prodVars, workVars, chanVars, wg, validatorWg, closer2Pc>>
    /\ UNCHANGED <<clientVars, tryVars>>

\* lines 237-240: go func() { validatorWg.Wait(); close(validChan) }()
MainSpawnCloser2 ==
    /\ Running
    /\ mainPc = "spawnCloser2"
    /\ closer2Pc' = "wait"
    /\ mainPc' = "collect"
    /\ UNCHANGED <<pool, validProxies, saveCalls, saveErr, file, summary, exitStatus>>
    /\ UNCHANGED <<prodVars, workVars, chanVars, wg, validatorWg, closer1Pc>>
    /\ UNCHANGED <<clientVars, tryVars>>

(***************************************************************************)
(* scrapeProxies, lines 58-118                                             *)
(***************************************************************************)
\* ProducerFetch without the deferred wg.Done() on the failure returns
ProducerFetchNoDone(p) ==
    /\ Running
    /\ prodPc[p] = "fetch"
    /\ \E outcome \in FetchOutcomes :
          prodPc' = [prodPc EXCEPT ![p] = IF outcome = "ok" THEN "rows" ELSE "failed"]
    /\ UNCHANGED <<prodIdx, prodSent, prodPending, sentBag>>
    /\ UNCHANGED <<mainVars, workVars, chanVars, syncVars>>
    /\ UNCHANGED <<clientVars, tryVars>>

\* lines 71-90: build the request, fetch, parse.  Each failure returns, and
\* the deferred wg.Done() of line 59 runs at the return.
ProducerFetch(p) ==
    /\ Running
    /\ prodPc[p] = "fetch"
    /\ \E outcome \in FetchOutcomes :
          IF outcome = "ok"
          THEN /\ prodPc' = [prodPc EXCEPT ![p] = "rows"]
               /\ wg' = wg
          ELSE /\ prodPc' = [prodPc EXCEPT ![p] = "failed"]
               /\ wg' = wg - 1
    /\ UNCHANGED <<prodIdx, prodSent, prodPending, sentBag>>
    /\ UNCHANGED <<mainVars, workVars, chanVars, validatorWg, closer1Pc, closer2Pc>>
    /\ UNCHANGED <<clientVars, tryVars>>

\* lines 93-106: one row of the Each over "table tbody tr"
ProducerRow(p) ==
    /\ Running
    /\ prodPc[p] = "rows"
    /\ prodIdx[p] < MaxRows
    /\ \E row \in Rows :
          /\ prodIdx' = [prodIdx EXCEPT ![p] = @ + 1]
          /\ IF RowTable[row].emits
             THEN /\ prodPending' = [prodPending EXCEPT ![p] =
                         RowTable[row].candidate]
                  /\ prodPc' = [prodPc EXCEPT ![p] = "sendRow"]
             ELSE UNCHANGED <<prodPending, prodPc>>
    /\ UNCHANGED <<prodSent, sentBag>>
    /\ UNCHANGED <<mainVars, workVars, chanVars, syncVars>>
    /\ UNCHANGED <<clientVars, tryVars>>

\* the Each of line 93 has visited every row: on to the scripts
ProducerRowsEnd(p) ==
    /\ Running
    /\ prodPc[p] = "rows"
    /\ prodPc' = [prodPc EXCEPT ![p] = "scripts"]
    /\ prodIdx' = [prodIdx EXCEPT ![p] = 0]
    /\ UNCHANGED <<prodSent, prodPending, sentBag>>
    /\ UNCHANGED <<mainVars, workVars, chanVars, syncVars>>
    /\ UNCHANGED <<clientVars, tryVars>>

\* lines 109-117: one script of the Each over "script"
ProducerScript(p) ==
    /\ Running
    /\ prodPc[p] = "scripts"
    /\ prodIdx[p] < MaxScripts
    /\ \E js \in Scripts :
          /\ prodIdx' = [prodIdx EXCEPT ![p] = @ + 1]
          /\ IF ScriptTable[js].emits
             THEN /\ prodPending' = [prodPending EXCEPT ![p] =
                         ScriptTable[js].candidate]
                  /\ prodPc' = [prodPc EXCEPT ![p] = "sendScript"]
             ELSE UNCHANGED <<prodPending, prodPc>>
    /\ UNCHANGED <<prodSent, sentBag>>
    /\ UNCHANGED <<mainVars, workVars, chanVars, syncVars>>
    /\ UNCHANGED <<clientVars, tryVars>>

\* lines 101, 103, 114: proxyChan <- candidate.  Blocks while the buffer is
\* full; a send on a closed channel panics.
ProducerSend(p) ==
    /\ Running
    /\ prodPc[p] \in {"sendRow", "sendScript"}
    /\ proxyClosed \/ Len(proxyChan) < ChanCap
    /\ IF proxyClosed
       THEN /\ fault' = "send on closed channel"
            /\ UNCHANGED <<proxyChan, prodPc, prodSent, prodPending, sentBag>>
       ELSE /\ proxyChan' = Append(proxyChan, prodPending[p])
            /\ sentBag' = sentBag (+) SetToBag({prodPending[p]})
            /\ prodSent' = [prodSent EXCEPT ![p] = @ + 1]
            /\ prodPending' = [prodPending EXCEPT ![p] = NoItem]
            /\ prodPc' = [prodPc EXCEPT ![p] =
                             IF prodPc[p] = "sendRow" THEN "rows" ELSE "scripts"]
            /\ fault' = fault
    /\ UNCHANGED <<prodIdx, proxyClosed, validChan, validClosed>>
    /\ UNCHANGED <<mainVars, workVars, syncVars>>
    /\ UNCHANGED <<clientVars, tryVars>>

\* ProducerReturn without the wg.Done()
ProducerReturnNoDone(p) ==
    /\ Running
    /\ prodPc[p] = "scripts"
    /\ prodPc' = [prodPc EXCEPT ![p] = "done"]
    /\ UNCHANGED <<prodIdx, prodSent, prodPending, sentBag>>
    /\ UNCHANGED <<mainVars, workVars, chanVars, syncVars>>
    /\ UNCHANGED <<clientVars, tryVars>>

\* line 118: the function returns and the deferred wg.Done() runs
ProducerReturn(p) ==
    /\ Running
    /\ prodPc[p] = "scripts"
    /\ prodPc' = [prodPc EXCEPT ![p] = "done"]
    /\ wg' = wg - 1
    /\ UNCHANGED <<prodIdx, prodSent, prodPending, sentBag>>
    /\ UNCHANGED <<mainVars, workVars, chanVars, validatorWg, closer1Pc, closer2Pc>>
    /\ UNCHANGED <<clientVars, tryVars>>

(***************************************************************************)
(* The validator workers, lines 221-228, and validateProxy, lines 150-187  *)
(***************************************************************************)
\* line 223: for proxy := range proxyChan.  The loop ends when the channel
\* is closed and empty, and the deferred validatorWg.Done() runs.
WorkerRecv(w) ==
    /\ Running
    /\ workPc[w] = "recv"
    /\ proxyChan # <<>> \/ proxyClosed
    /\ IF proxyChan # <<>>
       THEN /\ workCur' = [workCur EXCEPT ![w] = Head(proxyChan)]
            /\ proxyChan' = Tail(proxyChan)
            /\ recvBag' = recvBag (+) SetToBag({Head(proxyChan)})
            /\ workPc' = [workPc EXCEPT ![w] = "validate"]
            /\ validatorWg' = validatorWg
       ELSE /\ workPc' = [workPc EXCEPT ![w] = "done"]
            /\ validatorWg' = validatorWg - 1
            /\ UNCHANGED <<workCur, proxyChan, recvBag>>
    /\ UNCHANGED <<fwdBag, dropBag, calls>>
    /\ UNCHANGED <<proxyClosed, validChan, validClosed, fault>>
    /\ UNCHANGED <<mainVars, prodVars, wg, closer1Pc, closer2Pc>>
    /\ UNCHANGED <<clientVars, tryVars>>

\* the record of a completed call of validateProxy
CallRecord(proxy, net, resp, ret, log) ==
    [proxy |-> proxy, net |-> net, resp |-> resp, ret |-> ret, log |-> log]

\* WorkerValidate with the structural check left out
WorkerValidateNoStructural(w) ==
    /\ Running
    /\ workPc[w] = "validate"
    /\ IF CheckTable[workCur[w]].urlParse
       THEN /\ workPc' = [workPc EXCEPT ![w] = "net"]
            /\ UNCHANGED <<workCur, dropBag, calls>>
       ELSE /\ calls' = calls (+)
                   SetToBag({CallRecord(workCur[w], FALSE, NoResponse, FALSE, "none")})
            /\ dropBag' = dropBag (+) SetToBag({workCur[w]})
            /\ workCur' = [workCur EXCEPT ![w] = NoItem]
            /\ workPc' = [workPc EXCEPT ![w] = "recv"]
    /\ UNCHANGED <<recvBag, fwdBag>>
    /\ UNCHANGED <<mainVars, prodVars, chanVars, syncVars>>
    /\ UNCHANGED <<clientVars, tryVars>>

\* WorkerValidate as a worker that starts a goroutine per candidate (go
\* validateProxy(proxy)) and goes back to its receive at once
WorkerValidateDetached(w) ==
    /\ Running
    /\ workPc[w] = "validate"
    /\ workCur' = [workCur EXCEPT ![w] = NoItem]
    /\ workPc' = [workPc EXCEPT ![w] = "recv"]
    /\ UNCHANGED <<recvBag, fwdBag, dropBag, calls>>
    /\ UNCHANGED <<mainVars, prodVars, chanVars, syncVars>>
    /\ UNCHANGED <<clientVars, tryVars>>

\* validateProxy up to line 178: the structural check (151-164), url.Parse
\* (166-169), and only then the client and its Get.  A failed check
\* returns false, and the worker goes back to its receive.
WorkerValidate(w) ==
    /\ Running
    /\ workPc[w] = "validate"
    /\ IF CheckTable[workCur[w]].structural /\ CheckTable[workCur[w]].urlParse
       THEN /\ workPc' = [workPc EXCEPT ![w] = "net"]
            /\ UNCHANGED <<workCur, dropBag, calls>>
       ELSE /\ calls' = calls (+)
                   SetToBag({CallRecord(workCur[w], FALSE, NoResponse, FALSE, "none")})
            /\ dropBag' = dropBag (+) SetToBag({workCur[w]})
            /\ workCur' = [workCur EXCEPT ![w] = NoItem]
            /\ workPc' = [workPc EXCEPT ![w] = "recv"]
    /\ UNCHANGED <<recvBag, fwdBag>>
    /\ UNCHANGED <<mainVars, prodVars, chanVars, syncVars>>
    /\ UNCHANGED <<clientVars, tryVars>>

\* NetVerdict taking any response for a success
NetVerdictAnyStatus(resp) == resp.kind = "status"

\* lines 178-186: what validateProxy returns for a response, and what it logs
NetVerdict(resp) == resp.kind = "status" /\ resp.status = 200

NetLog(resp) == IF resp.kind = "error" THEN "Dead" ELSE "Alive"

\* lines 178-186 and 224-226: the Get returns (the client's Timeout bounds
\* it); validateProxy returns, and the worker forwards or drops
WorkerNet(w) ==
    /\ Running
    /\ workPc[w] = "net"
    /\ \E resp \in NetResponses :
          /\ calls' = calls (+)
                SetToBag({CallRecord(workCur[w], TRUE, resp, NetVerdict(resp), NetLog(resp))})
          /\ IF NetVerdict(resp)
             THEN /\ workPc' = [workPc EXCEPT ![w] = "send"]
                  /\ UNCHANGED <<workCur, dropBag>>
             ELSE /\ dropBag' = dropBag (+) SetToBag({workCur[w]})
                  /\ workCur' = [workCur EXCEPT ![w] = NoItem]
                  /\ workPc' = [workPc EXCEPT ![w] = "recv"]
    /\ UNCHANGED <<recvBag, fwdBag>>
    /\ UNCHANGED <<mainVars, prodVars, chanVars, syncVars>>
    /\ UNCHANGED <<clientVars, tryVars>>

\* WorkerSend as a non-blocking send: the candidate is lost when validChan is full
WorkerSendOrLose(w) ==
    /\ Running
    /\ workPc[w] = "send"
    /\ IF validClosed
       THEN /\ fault' = "send on closed channel"
            /\ UNCHANGED <<validChan, workPc, workCur, fwdBag>>
       ELSE /\ IF Len(validChan) < ChanCap
               THEN /\ validChan' = Append(validChan, workCur[w])
                    /\ fwdBag' = fwdBag (+) SetToBag({workCur[w]})
               ELSE UNCHANGED <<validChan, fwdBag>>
            /\ workCur' = [workCur EXCEPT ![w] = NoItem]
            /\ workPc' = [workPc EXCEPT ![w] = "recv"]
            /\ fault' = fault
    /\ UNCHANGED <<recvBag, dropBag, calls>>
    /\ UNCHANGED <<proxyChan, proxyClosed, validClosed>>
    /\ UNCHANGED <<mainVars, prodVars, syncVars>>
    /\ UNCHANGED <<clientVars, tryVars>>

\* line 225: validChan <- proxy
WorkerSend(w) ==
    /\ Running
    /\ workPc[w] = "send"
    /\ validClosed \/ Len(validChan) < ChanCap
    /\ IF validClosed
       THEN /\ fault' = "send on closed channel"
            /\ UNCHANGED <<validChan, workPc, workCur, fwdBag>>
       ELSE /\ validChan' = Append(validChan, workCur[w])
            /\ fwdBag' = fwdBag (+) SetToBag({workCur[w]})
            /\ workCur' = [workCur EXCEPT ![w] = NoItem]
            /\ workPc' = [workPc EXCEPT ![w] = "recv"]
            /\ fault' = fault
    /\ UNCHANGED <<recvBag, dropBag, calls>>
    /\ UNCHANGED <<proxyChan, proxyClosed, validClosed>>
    /\ UNCHANGED <<mainVars, prodVars, syncVars>>
    /\ UNCHANGED <<clientVars, tryVars>>

(***************************************************************************)
(* The two closers, lines 232-240                                          *)
(***************************************************************************)
\* Closer1Wait without the wait
Closer1NoWait ==
    /\ Running
    /\ closer1Pc = "wait"
    /\ closer1Pc' = "close"
    /\ UNCHANGED <<mainVars, prodVars, workVars, chanVars, wg, validatorWg, closer2Pc>>
    /\ UNCHANGED <<clientVars, tryVars>>

\* line 233: wg.Wait() returns once the counter is zero
Closer1Wait ==
    /\ Running
    /\ closer1Pc = "wait"
    /\ wg = 0
    /\ closer1Pc' = "close"
    /\ UNCHANGED <<mainVars, prodVars, workVars, chanVars, wg, validatorWg, closer2Pc>>
    /\ UNCHANGED <<clientVars, tryVars>>

\* line 234: close(proxyChan); closing a closed channel panics
Closer1Close ==
    /\ Running
    /\ closer1Pc = "close"
    /\ IF proxyClosed
       THEN /\ fault' = "close of closed channel"
            /\ UNCHANGED <<proxyClosed, closer1Pc>>
       ELSE /\ proxyClosed' = TRUE
            /\ closer1Pc' = "done"
            /\ fault' = fault
    /\ UNCHANGED <<proxyChan, validChan, validClosed>>
    /\ UNCHANGED <<mainVars, prodVars, workVars, wg, validatorWg, closer2Pc>>
    /\ UNCHANGED <<clientVars, tryVars>>

\* Closer2Wait without the wait
Closer2NoWait ==
    /\ Running
    /\ closer2Pc = "wait"
    /\ closer2Pc' = "close"
    /\ UNCHANGED <<mainVars, prodVars, workVars, chanVars, wg, validatorWg, closer1Pc>>
    /\ UNCHANGED <<clientVars, tryVars>>

\* line 238: validatorWg.Wait()
Closer2Wait ==
    /\ Running
    /\ closer2Pc = "wait"
    /\ validatorWg = 0
    /\ closer2Pc' = "close"
    /\ UNCHANGED <<mainVars, prodVars, workVars, chanVars, wg, validatorWg, closer1Pc>>
    /\ UNCHANGED <<clientVars, tryVars>>

\* line 239: close(validChan)
Closer2Close ==
    /\ Running
    /\ closer2Pc = "close"
    /\ IF validClosed
       THEN /\ fault' = "close of closed channel"
            /\ UNCHANGED <<validClosed, closer2Pc>>
       ELSE /\ validClosed' = TRUE
            /\ closer2Pc' = "done"
            /\ fault' = fault
    /\ UNCHANGED <<proxyChan, proxyClosed, validChan>>
    /\ UNCHANGED <<mainVars, prodVars, workVars, wg, validatorWg, closer1Pc>>
    /\ UNCHANGED <<clientVars, tryVars>>

(***************************************************************************)
(* main, lines 243-255: collect, save, report                              *)
(***************************************************************************)
\* MainCollect as a drain that stops at an empty channel, closed or not
MainCollectNoBlock ==
    /\ Running
    /\ mainPc = "collect"
    /\ IF validChan # <<>>
       THEN /\ pool' = Add(pool, Head(validChan))
            /\ validProxies' = Append(validProxies, Head(validChan))
            /\ validChan' = Tail(validChan)
            /\ mainPc' = mainPc
       ELSE /\ mainPc' = "save"
            /\ UNCHANGED <<pool, validProxies, validChan>>
    /\ UNCHANGED <<saveCalls, saveErr, file, summary, exitStatus>>
    /\ UNCHANGED <<proxyChan, proxyClosed, validClosed, fault>>
    /\ UNCHANGED <<prodVars, workVars, syncVars>>
    /\ UNCHANGED <<clientVars, tryVars>>

\* lines 244-248: for proxy := range validChan { pool.Add; append; print }
MainCollect ==
    /\ Running
    /\ mainPc = "collect"
    /\ validChan # <<>> \/ validClosed
    /\ IF validChan # <<>>
       THEN /\ pool' = Add(pool, Head(validChan))
            /\ validProxies' = Append(validProxies, Head(validChan))
            /\ validChan' = Tail(validChan)
            /\ mainPc' = mainPc
       ELSE /\ mainPc' = "save"
            /\ UNCHANGED <<pool, validProxies, validChan>>
    /\ UNCHANGED <<saveCalls, saveErr, file, summary, exitStatus>>
    /\ UNCHANGED <<proxyChan, proxyClosed, validClosed, fault>>
    /\ UNCHANGED <<prodVars, workVars, syncVars>>
    /\ UNCHANGED <<clientVars, tryVars>>

\* saveProxies, lines 189-201: os.Create fails and the error is returned,
\* or the file is created (truncated) and gets one line per proxy
saveProxies(path, proxies, createOK) ==
    IF createOK
    THEN [err |-> "nil", file |-> [path |-> path, lines |-> proxies]]
    ELSE [err |-> "error", file |-> file]

\* lines 250-254: the error of os.UserHomeDir is ignored (homeDir is then
\* empty and the path relative), and so is what saveProxies returns
MainSave ==
    /\ Running
    /\ mainPc = "save"
    /\ \E homeOK \in BOOLEAN, createOK \in BOOLEAN :
          LET r == saveProxies(IF homeOK THEN "home" ELSE "relative",
                               validProxies, createOK)
          IN  /\ file' = r.file
              /\ saveErr' = r.err
    /\ saveCalls' = saveCalls + 1
    /\ mainPc' = "summary"
    /\ UNCHANGED <<pool, validProxies, summary, exitStatus>>
    /\ UNCHANGED <<prodVars, workVars, chanVars, syncVars>>
    /\ UNCHANGED <<clientVars, tryVars>>

\* line 255 and the return of main: the total is printed, the process ends
MainSummary ==
    /\ Running
    /\ mainPc = "summary"
    /\ summary' = Len(validProxies)
    /\ mainPc' = "done"
    /\ exitStatus' = "ok"
    /\ UNCHANGED <<pool, validProxies, saveCalls, saveErr, file>>
    /\ UNCHANGED <<prodVars, workVars, chanVars, syncVars>>
    /\ UNCHANGED <<clientVars, tryVars>>

Main ==
    \/ MainSpawnProducer
    \/ MainSpawnWorker
    \/ MainSpawnCloser1
    \/ MainSpawnCloser2
    \/ MainCollect
    \/ MainSave
    \/ MainSummary

Producer(p) ==
    \/ ProducerFetch(p)
    \/ ProducerRow(p)
    \/ ProducerRowsEnd(p)
    \/ ProducerScript(p)
    \/ ProducerSend(p)
    \/ ProducerReturn(p)

Worker(w) ==
    \/ WorkerRecv(w)
    \/ WorkerValidate(w)
    \/ WorkerNet(w)
    \/ WorkerSend(w)

Closer1 == Closer1Wait \/ Closer1Close

Closer2 == Closer2Wait \/ Closer2Close

Next ==
    \/ Main
    \/ \E p \in Producers : Producer(p)
    \/ \E w \in Workers : Worker(w)
    \/ Closer1
    \/ Closer2

Spec == Init /\ [][Next]_vars

(***************************************************************************)
(* The Go scheduler runs every runnable goroutine eventually, and every    *)
(* network call of the source carries a Timeout (lines 62 and 175), so a   *)
(* goroutine that can take a step eventually takes it.                     *)
(***************************************************************************)
FairSpec ==
    /\ Spec
    /\ WF_vars(Main)
    /\ \A p \in Producers : WF_vars(Producer(p))
    /\ \A w \in Workers : WF_vars(Worker(w))
    /\ WF_vars(Closer1)
    /\ WF_vars(Closer2)

(***************************************************************************)
(* Vocabulary of the properties                                            *)
(***************************************************************************)
\* the bag of the elements of a sequence
BagOfSeq(q) ==
    [v \in {q[i] : i \in DOMAIN q} |-> Cardinality({i \in DOMAIN q : q[i] = v})]

\* the bag of the candidates the workers hold
RECURSIVE BagOfHeld(_)
BagOfHeld(ws) ==
    IF ws = {} THEN EmptyBag
    ELSE LET w == CHOOSE x \in ws : TRUE
         IN  (IF workCur[w] = NoItem THEN EmptyBag ELSE SetToBag({workCur[w]}))
             (+) BagOfHeld(ws \ {w})

ProducerExited(p) == prodPc[p] \in {"done", "failed"}

AllProducersExited == \A p \in Producers : ProducerExited(p)

AllWorkersExited == \A w \in Workers : workPc[w] = "done"

\* a producer stopped at a send on a full, open candidate channel
ProducerBlocked(p) ==
    /\ prodPc[p] \in {"sendRow", "sendScript"}
    /\ ~proxyClosed
    /\ Len(proxyChan) >= ChanCap

\* the run is over: every goroutine has exited and main has returned
Finished ==
    /\ mainPc = "done"
    /\ AllProducersExited
    /\ AllWorkersExited
    /\ closer1Pc = "done"
    /\ closer2Pc = "done"
    /\ proxyClosed
    /\ validClosed
    /\ saveCalls = 1

(***************************************************************************)
(* C1.  Pipeline liveness.  Under fair scheduling, with every fetch and    *)
(* every proxied GET returning, the run terminates: every producer and     *)
(* worker exits, both channels get closed, the drain loop ends and the     *)
(* persist step is reached.  No reachable state is a deadlock (a state     *)
(* with no step is a finished run), and a producer blocked on a full       *)
(* candidate channel is eventually unblocked.                              *)
(***************************************************************************)
C1_PipelineTerminates ==
    /\ [](Finished \/ ENABLED Next)
    /\ <>Finished
    /\ \A p \in Producers : ProducerBlocked(p) ~> ~ProducerBlocked(p)

\* a finished run in which the producers emitted more than the channel holds
C1_Witness == Finished /\ BagCardinality(sentBag) > ChanCap

(***************************************************************************)
(* C2.  No lost or duplicated work.  Every candidate sent on the candidate *)
(* channel is in the channel or has been received exactly once; every      *)
(* received candidate is held by a worker, or was forwarded once, or was   *)
(* dropped once.  When the run ends, sent = forwarded + dropped and no     *)
(* candidate remains in a channel or in a worker.                          *)
(***************************************************************************)
C2_NoLostOrDuplicatedWork ==
    /\ sentBag = recvBag (+) BagOfSeq(proxyChan)
    /\ recvBag = (fwdBag (+) dropBag) (+) BagOfHeld(Workers)
    /\ \A w \in Workers : (workCur[w] # NoItem) = (workPc[w] \in {"validate", "net", "send"})
    /\ mainPc = "done" =>
          /\ sentBag = fwdBag (+) dropBag
          /\ BagCardinality(sentBag) = BagCardinality(fwdBag) + BagCardinality(dropBag)
          /\ proxyChan = <<>> /\ validChan = <<>>
          /\ \A w \in Workers : workCur[w] = NoItem

\* a finished run with a candidate forwarded, one dropped and one sent twice
C2_Witness ==
    /\ mainPc = "done"
    /\ fwdBag # EmptyBag
    /\ dropBag # EmptyBag
    /\ \E v \in BagToSet(sentBag) : CopiesIn(v, sentBag) >= 2

(***************************************************************************)
(* C3.  Shutdown ordering.  validChan is closed strictly after proxyChan   *)
(* (never before it, never in the same step), and proxyChan is closed only *)
(* when every producer has finished: no producer has a send pending or     *)
(* yet to perform.                                                         *)
(***************************************************************************)
C3_ShutdownOrdering ==
    /\ [](validClosed => proxyClosed)
    /\ [](proxyClosed => AllProducersExited)
    /\ [][validClosed' # validClosed => proxyClosed /\ proxyClosed']_vars
    /\ [][proxyClosed' # proxyClosed => AllProducersExited]_vars

\* both channels closed in a run in which the producers did send
C3_Witness == proxyClosed /\ validClosed /\ sentBag # EmptyBag

(***************************************************************************)
(* C4.  Single-closer discipline.  Neither "close of closed channel" nor   *)
(* "send on closed channel" is reachable: no closer is about to close a    *)
(* closed channel and no producer or worker is at a send on a closed one.  *)
(***************************************************************************)
C4_SingleCloser ==
    /\ fault = "none"
    /\ closer1Pc = "close" => ~proxyClosed
    /\ closer2Pc = "close" => ~validClosed
    /\ \A p \in Producers : prodPc[p] \in {"sendRow", "sendScript"} => ~proxyClosed
    /\ \A w \in Workers : workPc[w] = "send" => ~validClosed
    /\ proxyClosed = (closer1Pc = "done")
    /\ validClosed = (closer2Pc = "done")

\* both channels closed, after sends on both of them
C4_Witness ==
    /\ proxyClosed /\ validClosed
    /\ sentBag # EmptyBag /\ fwdBag # EmptyBag

(***************************************************************************)
(* C5.  saveProxies is called exactly once per run, and only after the     *)
(* results channel is closed and drained, at which moment every producer   *)
(* and every worker has exited; the drain loop ends only when validChan is *)
(* closed and empty.                                                       *)
(***************************************************************************)
C5_PersistOnceAfterDrain ==
    /\ saveCalls <= 1
    /\ (saveCalls = 1) = (mainPc \in {"summary", "done"})
    /\ mainPc \in {"save", "summary", "done"} =>
          /\ validClosed /\ validChan = <<>>
          /\ AllProducersExited /\ AllWorkersExited

\* the save done in a run that collected something
C5_Witness == saveCalls = 1 /\ validProxies # <<>> /\ saveErr = "nil"

\* the bag of the candidates for which validateProxy returned true
RECURSIVE BagOfAccepted(_)
BagOfAccepted(cs) ==
    IF cs = {} THEN EmptyBag
    ELSE LET c == CHOOSE x \in cs : TRUE
         IN  (IF c.ret THEN [v \in {c.proxy} |-> CopiesIn(c, calls)] ELSE EmptyBag)
             (+) BagOfAccepted(cs \ {c})

\* the candidates validated true that are still on their way to the collector
BagOfSending(ws) ==
    BagOfHeld({w \in ws : workPc[w] = "send"})

(***************************************************************************)
(* C6.  Collected output is exactly the validated work.  The output list   *)
(* and the Pool's sequence are equal element by element; once the          *)
(* collector has finished, as a multiset they are the candidates for which *)
(* validateProxy returned true, each as many times as it was validated     *)
(* (before that, the rest is in validChan or at a worker's send); a        *)
(* successful save writes exactly that list.                               *)
(***************************************************************************)
C6_OutputIsValidatedWork ==
    /\ pool.proxies = validProxies
    /\ BagOfAccepted(BagToSet(calls))
          = (BagOfSeq(validProxies) (+) BagOfSeq(validChan)) (+) BagOfSending(Workers)
    /\ mainPc \in {"save", "summary", "done"} =>
          BagOfSeq(validProxies) = BagOfAccepted(BagToSet(calls))
    /\ saveErr = "nil" => file.lines = validProxies

\* a saved run whose output holds the same address twice: it was emitted
\* twice and validated twice
C6_Witness ==
    /\ mainPc = "done" /\ saveErr = "nil"
    /\ Len(validProxies) = 2 /\ validProxies[1] = validProxies[2]
    /\ file.lines = validProxies

(***************************************************************************)
(* C7.  Producer failure isolation.  A producer whose request, fetch or    *)
(* parse fails sends nothing and still signals the wait-group (the counter *)
(* is the number of producers started and not yet returned); whatever      *)
(* producers fail, the candidate channel is closed, every candidate of the *)
(* others is validated and the survivors collected, and the persist step   *)
(* is reached.                                                             *)
(***************************************************************************)
C7_ProducerFailureIsolated ==
    /\ [](\A p \in Producers :
             prodPc[p] = "failed" => prodSent[p] = 0 /\ prodPending[p] = NoItem)
    /\ [](wg = Cardinality({p \in Producers : prodPc[p] \notin {"unborn", "done", "failed"}}))
    /\ [](mainPc = "done" =>
             /\ proxyClosed
             /\ sentBag = fwdBag (+) dropBag
             /\ BagOfSeq(validProxies) = fwdBag)
    /\ (\E p \in Producers : prodPc[p] = "failed") ~> (saveCalls = 1)

\* a finished run with a failed producer and output from another one
C7_Witness ==
    /\ mainPc = "done"
    /\ \E p \in Producers : prodPc[p] = "failed"
    /\ \E p \in Producers : prodSent[p] > 0
    /\ validProxies # <<>>

(***************************************************************************)
(* C8.  A persistence failure is surfaced: when the output file cannot be  *)
(* created, the run does not print its summary and end normally as if the  *)
(* save had succeeded.                                                     *)
(***************************************************************************)
C8_PersistFailureSurfaced ==
    saveErr = "error" => summary = 0 - 1 /\ exitStatus # "ok"

(***************************************************************************)
(* C9.  validateProxy short-circuits in order.  A call on an address that  *)
(* fails the structural check returns false with no network call; so does  *)
(* a call on one that fails url.Parse; the network call is issued only     *)
(* when both passed; an unreachable address (the GET fails) gives false.   *)
(***************************************************************************)
C9_ValidateShortCircuits ==
    /\ \A c \in BagToSet(calls) :
          /\ ~CheckTable[c.proxy].structural => ~c.net /\ ~c.ret
          /\ ~CheckTable[c.proxy].urlParse => ~c.net /\ ~c.ret
          /\ c.net => CheckTable[c.proxy].structural /\ CheckTable[c.proxy].urlParse
          /\ c.resp.kind = "error" => ~c.ret
          /\ c.net = (c.resp # NoResponse)
    /\ \A w \in Workers :
          workPc[w] = "net" =>
             CheckTable[workCur[w]].structural /\ CheckTable[workCur[w]].urlParse

\* calls completed on a malformed address, on one url.Parse rejects and on
\* an unreachable one
C9_Witness ==
    /\ \E c \in BagToSet(calls) : ~CheckTable[c.proxy].structural
    /\ \E c \in BagToSet(calls) :
          CheckTable[c.proxy].structural /\ ~CheckTable[c.proxy].urlParse
    /\ \E c \in BagToSet(calls) : c.net /\ c.resp.kind = "error" /\ ~c.ret

(***************************************************************************)
(* C10.  Once the checks passed, validateProxy returns true if and only if *)
(* the GET completed without error with status 200; only candidates        *)
(* answered with status 200 are forwarded to the results channel.          *)
(***************************************************************************)
Answered200(c) == c.net /\ c.resp.kind = "status" /\ c.resp.status = 200

RECURSIVE CountAnswered200(_, _)
CountAnswered200(cs, v) ==
    IF cs = {} THEN 0
    ELSE LET c == CHOOSE x \in cs : TRUE
         IN  (IF c.proxy = v /\ Answered200(c) THEN CopiesIn(c, calls) ELSE 0)
             + CountAnswered200(cs \ {c}, v)

C10_TrueIffStatus200 ==
    /\ \A c \in BagToSet(calls) : c.net => (c.ret = Answered200(c))
    /\ \A v \in BagToSet(fwdBag) :
          CopiesIn(v, fwdBag) <= CountAnswered200(BagToSet(calls), v)
    /\ \A w \in Workers :
          workPc[w] = "send" => CountAnswered200(BagToSet(calls), workCur[w]) >= 1

\* one call answered 200 and forwarded, another answered 404 and dropped
C10_Witness ==
    /\ \E c \in BagToSet(calls) : Answered200(c) /\ c.ret /\ BagIn(c.proxy, fwdBag)
    /\ \E c \in BagToSet(calls) :
          c.net /\ c.resp.status = 404 /\ ~c.ret /\ BagIn(c.proxy, dropBag)

(***************************************************************************)
(* C11.  Liveness logging matches the verdict.  Every completed call of    *)
(* validateProxy whose liveness check failed (the GET gave an error, or a  *)
(* response whose status is not 200) returned false with "Dead" logged,    *)
(* and "Alive" is logged only by a call that returned true.                *)
(***************************************************************************)
C11_LoggingMatchesVerdict ==
    \A c \in BagToSet(calls) :
       /\ c.net /\ ~Answered200(c) => ~c.ret /\ c.log = "Dead"
       /\ c.log = "Alive" => c.ret

\* the calls of validateProxy that have started and not yet returned: a call
\* starts with each receive of line 223 and ends with a record in calls
ValidationsInProgress == BagCardinality(recvBag) - BagCardinality(calls)

\* the worker goroutines main has started so far
WorkersStarted == Cardinality({w \in Workers : workPc[w] # "unborn"})

(***************************************************************************)
(* C12.  Bounded validation fan-out.  In every state the number of         *)
(* validations in progress is at most the worker count, however many       *)
(* candidates the producers have sent: each of them runs inside a worker.  *)
(* Workers are started only by main's loop of lines 219-229, one per       *)
(* iteration, and their number is the worker count from then on.           *)
(***************************************************************************)
C12_BoundedFanOut ==
    /\ [](ValidationsInProgress <= NumWorkers)
    /\ [](ValidationsInProgress
             = Cardinality({w \in Workers : workPc[w] \in {"validate", "net"}}))
    /\ [](WorkersStarted <= NumWorkers)
    /\ [](mainPc \notin {"spawnProducers", "spawnWorkers"} => WorkersStarted = NumWorkers)
    /\ [][WorkersStarted' # WorkersStarted =>
             mainPc = "spawnWorkers" /\ WorkersStarted' = WorkersStarted + 1]_vars

\* every worker is validating while the producers have already sent more
\* candidates than there are workers
C12_Witness ==
    /\ ValidationsInProgress = NumWorkers
    /\ BagCardinality(sentBag) > NumWorkers

(***************************************************************************)
(* ProxyPool under its callers (src/main.go:36-56).  The pool is created   *)
(* empty (line 204); goroutines call Add and GetNext on it.  Add holds     *)
(* mu.Lock for its whole body.  GetNext holds only mu.RLock, which any     *)
(* number of goroutines hold together, so the read of p.current, its write *)
(* and the read of the element (lines 54-55) are separate steps that       *)
(* interleave with those of the other readers.                             *)
(***************************************************************************)
\* the strings the clients add (the pool stores whatever it is given)
Addresses == {RowCandidate(RowGood), RowCandidate(RowBadOctet)}

\* GetNext's cursor that never moves
NextCursorStay(current, n) == current % n

\* GetNext's cursor without the wrap-around
NextCursorNoWrap(current, n) == current + 1

\* line 54: (p.current + 1) % len(p.proxies)
NextCursor(current, n) == (current + 1) % n

\* the variables of the run of main, but the pool
runVars ==
    <<mainPc, validProxies, saveCalls, saveErr, file, summary, exitStatus,
      prodVars, workVars, chanVars, syncVars>>

\* everything but the pool and its clients
pipeVars == <<runVars, tryVars>>

\* the record of a completed call on the pool
PoolCall(op, c, ret) ==
    [op |-> op, proxy |-> ret.proxy, found |-> ret.found, pos |-> ret.pos,
     entry |-> clientEntry[c], after |-> pool.current, n |-> Len(pool.proxies)]

\* line 43: p.mu.Lock(), granted when nobody holds the lock
ClientAddLock(c) ==
    /\ clientPc[c] = "idle"
    /\ callsLeft > 0
    /\ mu.readers = 0 /\ ~mu.writer
    /\ \E a \in Addresses : clientArg' = [clientArg EXCEPT ![c] = a]
    /\ mu' = [mu EXCEPT !.writer = TRUE]
    /\ clientEntry' = [clientEntry EXCEPT ![c] = pool.current]
    /\ clientPc' = [clientPc EXCEPT ![c] = "add"]
    /\ callsLeft' = callsLeft - 1
    /\ UNCHANGED <<pool, clientReg, clientRet, poolLog>>
    /\ UNCHANGED pipeVars

\* lines 44-45: the append, and the deferred Unlock
ClientAddAppend(c) ==
    /\ clientPc[c] = "add"
    /\ pool' = Add(pool, clientArg[c])
    /\ mu' = [mu EXCEPT !.writer = FALSE]
    /\ poolLog' = Append(poolLog,
          [op |-> "Add", proxy |-> clientArg[c], found |-> TRUE, pos |-> Len(pool.proxies),
           entry |-> clientEntry[c], after |-> pool'.current, n |-> Len(pool'.proxies)])
    /\ clientPc' = [clientPc EXCEPT ![c] = "idle"]
    /\ UNCHANGED <<clientArg, clientReg, clientRet, clientEntry, callsLeft>>
    /\ UNCHANGED pipeVars

\* lines 49-53: p.mu.RLock(), granted unless the write lock is held; then
\* the test of the length
ClientGetEnter(c) ==
    /\ clientPc[c] = "idle"
    /\ callsLeft > 0
    /\ ~mu.writer
    /\ mu' = [mu EXCEPT !.readers = @ + 1]
    /\ clientEntry' = [clientEntry EXCEPT ![c] = pool.current]
    /\ callsLeft' = callsLeft - 1
    /\ IF Len(pool.proxies) = 0
       THEN /\ clientRet' = [clientRet EXCEPT ![c] = NotFound]
            /\ clientPc' = [clientPc EXCEPT ![c] = "getReturn"]
       ELSE /\ clientPc' = [clientPc EXCEPT ![c] = "getLoad"]
            /\ UNCHANGED clientRet
    /\ UNCHANGED <<pool, clientArg, clientReg, poolLog>>
    /\ UNCHANGED pipeVars

\* line 54, right-hand side: the read of p.current
ClientGetLoad(c) ==
    /\ clientPc[c] = "getLoad"
    /\ clientReg' = [clientReg EXCEPT ![c] = pool.current]
    /\ clientPc' = [clientPc EXCEPT ![c] = "getStore"]
    /\ UNCHANGED <<pool, mu, clientArg, clientRet, clientEntry, poolLog, callsLeft>>
    /\ UNCHANGED pipeVars

\* line 54: the write of p.current
ClientGetStore(c) ==
    /\ clientPc[c] = "getStore"
    /\ LET new == NextCursor(clientReg[c], Len(pool.proxies))
       IN  /\ pool' = [pool EXCEPT !.current = new]
           /\ clientReg' = [clientReg EXCEPT ![c] = new]
    /\ clientPc' = [clientPc EXCEPT ![c] = "getIndex"]
    /\ UNCHANGED <<mu, clientArg, clientRet, clientEntry, poolLog, callsLeft>>
    /\ UNCHANGED pipeVars

\* line 55: p.proxies[p.current].  The index is the value just stored, either
\* still in its register or read back from p.current, which another reader
\* may have written since; an index outside the slice is a panic.
ClientGetIndex(c) ==
    /\ clientPc[c] = "getIndex"
    /\ \E i \in {clientReg[c], pool.current} :
          IF i >= 0 /\ i < Len(pool.proxies)
          THEN /\ clientRet' = [clientRet EXCEPT ![c] =
                     [proxy |-> pool.proxies[i + 1], found |-> TRUE, pos |-> i]]
               /\ clientPc' = [clientPc EXCEPT ![c] = "getReturn"]
          ELSE /\ clientPc' = [clientPc EXCEPT ![c] = "panic"]
               /\ UNCHANGED clientRet
    /\ UNCHANGED <<pool, mu, clientArg, clientReg, clientEntry, poolLog, callsLeft>>
    /\ UNCHANGED pipeVars

\* line 50: the deferred RUnlock, and the return
ClientGetReturn(c) ==
    /\ clientPc[c] = "getReturn"
    /\ mu' = [mu EXCEPT !.readers = @ - 1]
    /\ poolLog' = Append(poolLog, PoolCall("GetNext", c, clientRet[c]))
    /\ clientPc' = [clientPc EXCEPT ![c] = "idle"]
    /\ UNCHANGED <<pool, clientArg, clientReg, clientRet, clientEntry, callsLeft>>
    /\ UNCHANGED pipeVars

Client(c) ==
    \/ ClientAddLock(c)
    \/ ClientAddAppend(c)
    \/ ClientGetEnter(c)
    \/ ClientGetLoad(c)
    \/ ClientGetStore(c)
    \/ ClientGetIndex(c)
    \/ ClientGetReturn(c)

\* the clients call the pool concurrently
PoolNext == \E c \in Clients : Client(c)

PoolSpec == Init /\ [][PoolNext]_vars

\* the clients call the pool one call after the other
SerialPoolNext ==
    \E c \in Clients :
       /\ \A d \in Clients \ {c} : clientPc[d] = "idle"
       /\ Client(c)

SerialPoolSpec == Init /\ [][SerialPoolNext]_vars

\* nobody is inside a call
PoolQuiet == \A c \in Clients : clientPc[c] = "idle"

\* the positions returned by the calls i .. i+n-1 of the log, n being the
\* length the pool had at call i, when these are all calls of GetNext
RoundAt(i) == {poolLog[j].pos : j \in i..(i + poolLog[i].n - 1)}

IsRoundAt(i) ==
    /\ poolLog[i].n >= 1
    /\ i + poolLog[i].n - 1 <= Len(poolLog)
    /\ \A j \in i..(i + poolLog[i].n - 1) : poolLog[j].op = "GetNext"

(***************************************************************************)
(* C13.  GetNext, called with no other call in progress.  On an empty pool *)
(* it returns not-found and leaves the cursor as it was.  On a pool of     *)
(* n >= 1 addresses it sets the cursor to (cursor + 1) mod n and returns   *)
(* the address at that position; n consecutive calls of GetNext with no    *)
(* Add between them return each of the n positions once.                   *)
(***************************************************************************)
C13_GetNextRoundRobin ==
    /\ \A i \in DOMAIN poolLog :
          LET r == poolLog[i]
          IN  r.op = "GetNext" =>
                 IF r.n = 0
                 THEN ~r.found /\ r.proxy = <<>> /\ r.after = r.entry
                 ELSE /\ r.found
                      /\ r.after = (r.entry + 1) % r.n
                      /\ r.pos = r.after
                      /\ r.proxy = pool.proxies[r.after + 1]
    /\ \A i \in DOMAIN poolLog :
          IsRoundAt(i) =>
             /\ RoundAt(i) = 0..(poolLog[i].n - 1)
             /\ poolLog[i + poolLog[i].n - 1].after = poolLog[i].entry

\* a full round on a pool of two different addresses: two calls of GetNext
\* in a row, each returning one of them
C13_Witness ==
    /\ PoolQuiet
    /\ \E i \in DOMAIN poolLog :
          /\ IsRoundAt(i)
          /\ poolLog[i].n >= 2
          /\ poolLog[i].proxy # poolLog[i + 1].proxy

\* the place in the log of the last completed Add, 0 when there is none
LastAdd ==
    LET adds == {i \in DOMAIN poolLog : poolLog[i].op = "Add"}
    IN  IF adds = {} THEN 0 ELSE CHOOSE i \in adds : \A j \in adds : j <= i

\* the cursor as that Add left it
CursorAtLastAdd == IF LastAdd = 0 THEN 0 ELSE poolLog[LastAdd].after

\* the calls of GetNext completed since
GetsSinceLastAdd == Len(poolLog) - LastAdd

(***************************************************************************)
(* C14.  ProxyPool is thread-safe.  Whatever the interleaving of the       *)
(* clients, once no call is in progress the k calls of GetNext completed   *)
(* on the pool of length n since its last Add have advanced the cursor by  *)
(* k mod n, and they returned the positions that k calls made one after    *)
(* the other return.                                                       *)
(***************************************************************************)
C14_PoolThreadSafe ==
    PoolQuiet /\ Len(pool.proxies) >= 1 =>
       LET n == Len(pool.proxies)
           k == GetsSinceLastAdd
       IN  /\ pool.current = (CursorAtLastAdd + k) % n
           /\ BagOfSeq([i \in 1..k |-> poolLog[LastAdd + i].pos])
                 = BagOfSeq([i \in 1..k |-> (CursorAtLastAdd + i) % n])

\* client c completes its Add in this step
AddReturns(c) == clientPc[c] = "add" /\ clientPc'[c] = "idle"

(***************************************************************************)
(* C15.  Add is a pure append.  A step that completes Add(a) makes the     *)
(* sequence one longer with a as its last element, whether or not a was    *)
(* in it, keeps the earlier elements in their order and keeps the cursor;  *)
(* no other step, and so no step of GetNext, changes the sequence.         *)
(***************************************************************************)
C15_AddIsPureAppend ==
    /\ [][\A c \in Clients :
             AddReturns(c) =>
                /\ Len(pool'.proxies) = Len(pool.proxies) + 1
                /\ pool'.proxies[Len(pool'.proxies)] = clientArg[c]
                /\ \A i \in DOMAIN pool.proxies : pool'.proxies[i] = pool.proxies[i]
                /\ pool'.current = pool.current]_vars
    /\ [][(\E c \in Clients : AddReturns(c)) \/ pool'.proxies = pool.proxies]_vars

\* an Add of an address the pool already held, made with the cursor moved
C15_Witness ==
    /\ poolLog # <<>>
    /\ poolLog[Len(poolLog)].op = "Add"
    /\ \E i \in 1..(Len(pool.proxies) - 1) : pool.proxies[i] = poolLog[Len(poolLog)].proxy
    /\ pool.proxies[Len(pool.proxies)] = poolLog[Len(poolLog)].proxy
    /\ pool.current # 0

(***************************************************************************)
(* C19.  Cursor bounds.  In every state reached by calls of Add and        *)
(* GetNext on a pool created empty, 0 <= current; current = 0 while the    *)
(* pool is empty and current < len(proxies) once it is not; GetNext never  *)
(* indexes outside the sequence: no call panics and every address it       *)
(* returned was read at a position below the length.                       *)
(***************************************************************************)
C19_CursorInBounds ==
    /\ pool.current >= 0
    /\ Len(pool.proxies) = 0 => pool.current = 0
    /\ Len(pool.proxies) > 0 => pool.current < Len(pool.proxies)
    /\ \A c \in Clients :
          /\ clientPc[c] # "panic"
          /\ clientPc[c] = "getIndex" =>
                clientReg[c] >= 0 /\ clientReg[c] < Len(pool.proxies)
    /\ \A i \in DOMAIN poolLog :
          poolLog[i].op = "GetNext" /\ poolLog[i].found =>
             poolLog[i].pos >= 0 /\ poolLog[i].pos < poolLog[i].n

\* on a pool of several addresses, a call of GetNext that put the cursor on
\* the last position and a later one that wrapped it around to 0
C19_Witness ==
    \E i, j \in DOMAIN poolLog :
       /\ i < j
       /\ poolLog[i].op = "GetNext" /\ poolLog[j].op = "GetNext"
       /\ poolLog[i].n >= 2 /\ poolLog[j].n = poolLog[i].n
       /\ poolLog[i].pos = poolLog[i].n - 1
       /\ poolLog[j].entry = poolLog[j].n - 1
       /\ poolLog[j].pos = 0 /\ pool.current = 0

(***************************************************************************)
(* One input taken through the code that handles it: a table row through   *)
(* lines 94-105, a script through lines 110-115, and the candidate they    *)
(* give, or any string a worker receives, through validateProxy and the    *)
(* worker's lines 224-226.                                                 *)
(***************************************************************************)
\* host texts: well-formed, out of range, wrong count, not digits, signed, empty
HostTexts ==
    {<<"1", ".", "2", ".", "3", ".", "4">>,
     <<"0", ".", "0", ".", "0", ".", "0">>,
     <<"2", "5", "5", ".", "2", "5", "5", ".", "2", "5", "5", ".", "2", "5", "5">>,
     <<"2", "5", "6", ".", "1", ".", "1", ".", "1">>,
     <<"1", ".", "2", ".", "3">>,
     <<"1", ".", "2", ".", "3", ".", "4", ".", "5">>,
     <<"a", ".", "b", ".", "c", ".", "d">>,
     <<"+", "1", ".", "2", ".", "3", ".", "4">>,
     <<"1", ".", "2", ".", "3", ".", "-", "4">>,
     <<"1", ".", ".", "3", ".", "4">>,
     <<>>}

\* what follows the host: ports in and out of range, signed, not digits, none, two
PortTexts ==
    {<<":", "8", "0">>,
     <<":", "1">>,
     <<":", "6", "5", "5", "3", "5">>,
     <<":", "0">>,
     <<":", "6", "5", "5", "3", "6">>,
     <<":", "-", "1">>,
     <<":", "+", "8", "0">>,
     <<":", "x">>,
     <<":">>,
     <<>>,
     <<":", "8", "0", ":", "8", "0">>}

\* document.write("1.2.3.4")
ScriptQuad == <<"d", "o", "c", "u", "m", "e", "n", "t", ".", "w", "r", "i", "t", "e", "(", "\"", "1", ".", "2", ".", "3", ".", "4", "\"", ")">>

\* document.write("1.2.3.4:80")
ScriptQuadPort == <<"d", "o", "c", "u", "m", "e", "n", "t", ".", "w", "r", "i", "t", "e", "(", "\"", "1", ".", "2", ".", "3", ".", "4", ":", "8", "0", "\"", ")">>

\* document.write("10.0.0.1".substring(0))
ScriptSubstring == <<"d", "o", "c", "u", "m", "e", "n", "t", ".", "w", "r", "i", "t", "e", "(", "\"", "1", "0", ".", "0", ".", "0", ".", "1", "\"", ".", "s", "u", "b", "s", "t", "r", "i", "n", "g", "(", "0", ")", ")">>

\* document.write(atob(x)+"1.2")
ScriptAtobBare == <<"d", "o", "c", "u", "m", "e", "n", "t", ".", "w", "r", "i", "t", "e", "(", "a", "t", "o", "b", "(", "x", ")", "+", "\"", "1", ".", "2", "\"", ")">>

SchemeTexts == {HttpPrefix, Socks5Prefix, <<>>}

\* the strings a worker is given
TryProxies ==
    {scheme \o host \o port :
        scheme \in SchemeTexts, host \in HostTexts, port \in PortTexts}

TryRows == {RowGood, RowNoIP, RowNoPort, RowBlank, RowSignedPort, RowBadOctet}

TryScripts ==
    {ScriptPlain, ScriptAtob, ScriptConcat, ScriptEmpty,
     ScriptQuad, ScriptQuadPort, ScriptSubstring, ScriptAtobBare}

TryInputs ==
    {[kind |-> "row", row |-> r, text |-> <<>>] : r \in TryRows}
        \cup {[kind |-> "script", row |-> RowBlank, text |-> js] : js \in TryScripts}
        \cup {[kind |-> "proxy", row |-> RowBlank, text |-> x] : x \in TryProxies}

TryInit ==
    /\ Fresh
    /\ tryPc = "extract"
    /\ tryInput \in TryInputs
    /\ tryProxy = NoItem
    /\ tryResult = NoResult

\* lines 94-105 for a row, lines 110-115 for a script: a candidate is sent
\* or nothing is; a string received by a worker is the candidate itself
TryExtract ==
    /\ tryPc = "extract"
    /\ LET emits ==
              CASE tryInput.kind = "row" -> RowEmits(tryInput.row)
                [] tryInput.kind = "script" -> ScriptEmits(tryInput.text)
                [] OTHER -> TRUE
           candidate ==
              CASE tryInput.kind = "row" -> RowCandidate(tryInput.row)
                [] tryInput.kind = "script" -> ScriptCandidate(tryInput.text)
                [] OTHER -> tryInput.text
       IN  IF emits
           THEN /\ tryProxy' = candidate
                /\ tryPc' = "validate"
           ELSE /\ tryProxy' = NoItem
                /\ tryPc' = "skipped"
    /\ UNCHANGED <<tryInput, tryResult>>
    /\ UNCHANGED <<pool, runVars, clientVars>>

\* validateProxy, lines 150-187, and the worker's lines 224-226: the
\* candidate is sent on validChan when validateProxy returned true
TryValidate ==
    /\ tryPc = "validate"
    /\ IF StructuralOK(tryProxy) /\ URLParseOK(tryProxy)
       THEN \E resp \in NetResponses :
               tryResult' = [structural |-> TRUE, net |-> TRUE,
                             ret |-> NetVerdict(resp), forwarded |-> NetVerdict(resp)]
       ELSE tryResult' = [structural |-> StructuralOK(tryProxy), net |-> FALSE,
                          ret |-> FALSE, forwarded |-> FALSE]
    /\ tryPc' = "done"
    /\ UNCHANGED <<tryInput, tryProxy>>
    /\ UNCHANGED <<pool, runVars, clientVars>>

TryNext == TryExtract \/ TryValidate

TrySpec == TryInit /\ [][TryNext]_vars

\* a decimal numeral (digits only) whose value is in lo..hi
IsNumeral(s) == s # <<>> /\ \A i \in DOMAIN s : s[i] \in Digits

NumeralIn(s, lo, hi) == IsNumeral(s) /\ DigitsValue(s, 0) >= lo /\ DigitsValue(s, 0) <= hi

\* host:port with a dotted quad of octets in 0..255 and a port in 1..65535
WellFormed(proxy) ==
    LET parts == Split(HostPort(proxy), ":")
    IN  /\ Len(parts) = 2
        /\ LET octets == Split(parts[1], ".")
           IN  /\ Len(octets) = 4
               /\ \A i \in 1..4 : NumeralIn(octets[i], 0, 255)
        /\ NumeralIn(parts[2], 1, 65535)

(***************************************************************************)
(* C16.  The structural check.  With the scheme prefix stripped and the    *)
(* rest split on ":", validateProxy lets an address past its lines 151-164 *)
(* if and only if there are two parts, the first being four dot-separated  *)
(* numeric octets each in 0..255 and the second a number in 1..65535.      *)
(***************************************************************************)
C16_StructuralCheck ==
    tryPc = "done" => (tryResult.structural = WellFormed(tryProxy))

\* lines 121-123 not taken: deobfuscateIP goes on to lines 129-134
StripPath(js) == ~(Contains(js, AtobWord) /\ AtobMatches(js) # {})

(***************************************************************************)
(* C20.  A candidate that the script strategy makes on the path of lines   *)
(* 129-134 (no atob payload) is "http://" followed by one or more digits   *)
(* and dots, with no ":" after the prefix.  validateProxy rejects it at    *)
(* the structural check, before any network call, and the worker does not  *)
(* forward it; a script that yields nothing on that path sends nothing.    *)
(***************************************************************************)
C20_StripPathNeverValid ==
    tryInput.kind = "script" /\ StripPath(tryInput.text) =>
       /\ tryPc \in {"validate", "done"} =>
             /\ HasPrefix(tryProxy, HttpPrefix)
             /\ LET d == Drop(tryProxy, Len(HttpPrefix))
                IN  /\ d # <<>>
                    /\ \A i \in DOMAIN d : d[i] \in Digits \cup {"."}
                    /\ ~Contains(d, <<":">>)
       /\ tryPc = "done" =>
             /\ ~tryResult.structural
             /\ ~tryResult.net
             /\ ~tryResult.ret
             /\ ~tryResult.forwarded
       /\ tryPc = "skipped" => tryProxy = NoItem

\* a script on that path whose digits and dots make a valid dotted quad: its
\* candidate was rejected, with no network call
C20_Witness ==
    /\ tryPc = "done"
    /\ tryInput.kind = "script" /\ StripPath(tryInput.text)
    /\ isValidIP(Drop(tryProxy, Len(HttpPrefix)))
    /\ ~tryResult.net /\ ~tryResult.forwarded

(***************************************************************************)
(* C17.  Empty harvest.  A row whose IP cell or port cell is empty gives   *)
(* no candidate: whatever is sent on proxyChan is the candidate of a row   *)
(* with both cells filled, or of a script.  When the producers have all    *)
(* returned without sending anything, no call of validateProxy is ever     *)
(* started; the run still ends, saveProxies having been called once with   *)
(* the empty list (the file it creates is empty), and the total printed    *)
(* is 0.                                                                   *)
(***************************************************************************)
C17_EmptyHarvest ==
    /\ [](\A v \in BagToSet(sentBag) :
             \/ \E row \in Rows :
                   row.ip # <<>> /\ row.port # <<>> /\ v = RowTable[row].candidate
             \/ \E js \in Scripts : v = ScriptTable[js].candidate)
    /\ [](sentBag = EmptyBag =>
             /\ recvBag = EmptyBag /\ calls = EmptyBag
             /\ \A w \in Workers : workPc[w] \in {"unborn", "recv", "done"}
             /\ validChan = <<>> /\ validProxies = <<>>)
    /\ [](mainPc = "done" /\ sentBag = EmptyBag =>
             /\ saveCalls = 1
             /\ summary = 0
             /\ saveErr = "nil" => file # NoFile /\ file.lines = <<>>)
    /\ (AllProducersExited /\ sentBag = EmptyBag) ~> (Finished /\ summary = 0)

\* a finished run whose producers fetched their pages and sent nothing: the
\* file was written empty and the total is 0
C17_Witness ==
    /\ Finished
    /\ \A p \in Producers : prodPc[p] = "done"
    /\ sentBag = EmptyBag
    /\ saveErr = "nil" /\ file.lines = <<>> /\ file # NoFile
    /\ summary = 0

\* the goroutines a wait-group counts: started and not yet returned
ProducersRunning == Cardinality({p \in Producers : prodPc[p] \notin {"unborn", "done", "failed"}})

WorkersRunning == Cardinality({w \in Workers : workPc[w] \notin {"unborn", "done"}})

(***************************************************************************)
(* C18.  Barrier registration precedes waiting.  Every wg.Add(1) and every *)
(* validatorWg.Add(1) is a step of main taken before the closer of that    *)
(* wait-group is started; each counter is the number of its goroutines     *)
(* started and not yet returned, and is never negative; a closer is past   *)
(* its Wait only when every producer (every worker) has been started and   *)
(* has returned.                                                           *)
(***************************************************************************)
C18_RegistrationBeforeWait ==
    /\ [][wg' > wg => mainPc = "spawnProducers" /\ closer1Pc = "unborn" /\ closer1Pc' = "unborn"]_vars
    /\ [][validatorWg' > validatorWg =>
             mainPc = "spawnWorkers" /\ closer2Pc = "unborn" /\ closer2Pc' = "unborn"]_vars
    /\ [](closer1Pc # "unborn" => \A p \in Producers : prodPc[p] # "unborn")
    /\ [](closer2Pc # "unborn" => \A w \in Workers : workPc[w] # "unborn")
    /\ [](wg >= 0 /\ validatorWg >= 0)
    /\ [](wg = ProducersRunning /\ validatorWg = WorkersRunning)
    /\ [](closer1Pc \in {"close", "done"} => AllProducersExited)
    /\ [](closer2Pc \in {"close", "done"} => AllWorkersExited)

\* both closers wait while every producer and every worker is running
C18_Witness ==
    /\ closer1Pc = "wait" /\ closer2Pc = "wait"
    /\ wg = NumProducers /\ validatorWg = NumWorkers
    /\ ProducersRunning = NumProducers /\ WorkersRunning = NumWorkers

====
